---- MODULE Spec2Model ----
(***************************************************************************)
(* Connection orchestration and signaling layer of the experimental-hub   *)
(* frontend: the Primary Connection (class Connection), its control       *)
(* channel (RTCDataChannel "API"), its negotiation with the backend, and  *)
(* the Peer Transports (class SubConnection) with the Peer Registry.      *)
(*                                                                         *)
(* Every action is one synchronous run of a handler or of an API call, up *)
(* to its next await; the awaits of negotiate() are the positions of the  *)
(* variable neg.                                                           *)
(***************************************************************************)
EXTENDS Integers, Sequences, FiniteSets, TLC

\* ------------------------------------------------------------------ bounds
\* The calls and payloads of a run that extend its history: explicit stop()
\* calls, sendMessage() calls that write, and inbound payloads that are
\* dispatched (peer announcements included).
MaxCalls == 3

\* ------------------------------------------------------------ value domains
ConnectionState == {"NOT_STARTED", "CONNECTING", "CONNECTED", "DISCONNECTED", "FAILED"}

UserTypes == {"participant", "experimenter"}

\* Positions of the async function negotiate(): the await it is suspended at,
\* or the way it ended.
NegPositions == {"idle", "offer", "gathering", "fetch", "json", "setRemote",
                 "done", "failed", "unexpected", "rejected", "threw"}

\* Types the backend's answer to POST /offer may carry.
AnswerTypes == {"SESSION_DESCRIPTION", "ERROR"}

VARIABLES
    instance,        \* the constructor returned an instance
    userType,        \* Connection.userType (the constructor's argument)
    sessionId,       \* Connection.sessionId (the constructor's argument)
    participantId,   \* Connection.participantId (the constructor's argument)
    state,           \* Connection._state
    notified,        \* values passed to connectionStateChange.trigger, in order
    neg,             \* position of negotiate()
    requests,        \* fetch(BACKEND + "/offer") calls issued
    gather,          \* mainPc.iceGatheringState
    remoteSet,      \* mainPc.setRemoteDescription has been applied
    tracksAdded,     \* start() attached local tracks to mainPc
    pcClosed,        \* mainPc.connectionState === "closed"
    timers,          \* pending setTimeout(..., 500) callbacks of stop()
    dc,              \* readyState of the control channel
    dcOut,           \* types of the messages written with dc.send, in order
    stopRuns,        \* executions of stop() (explicit or from dc.onclose)
    stopCalls,       \* explicit stop() calls
    transceiverStops,\* passes of stop() that called transceiver.stop()
    trackStops,      \* passes of stop() that called sender.track.stop()
    pcCloses,        \* mainPc.close() calls
    handlers,        \* the handlers subscribed on api, in subscription order
    handlerCalls,    \* invocations of handlers subscribed on api
    transports,      \* the SubConnections constructed, in order: id and stopped
    subPc,           \* per SubConnection: pc.close() calls, connectionClosed ids emitted
    subNeg,          \* per SubConnection: its negotiation (entry point, position, answer applied)
    remoteStream,    \* per transport (0: mainPc, t: SubConnection t): tracks of the
                     \* remote stream and remoteStreamChange notifications
    registry,       \* the Peer Registry: entries (id, transport) in insertion order
    peerList,        \* the peer list most recently emitted
    prevList,        \* the peer list emitted before it, as its subscriber holds it now
    peerLists,       \* peer lists emitted
    last             \* the most recent step: operation, outcome, peer id, transport

vars == <<instance, userType, sessionId, participantId, state, notified, neg,
          requests, gather, remoteSet, tracksAdded, pcClosed, timers, dc, dcOut, stopRuns, stopCalls, transceiverStops,
          trackStops, pcCloses, handlers, handlerCalls,
          transports, subPc, subNeg, remoteStream, registry, peerList, prevList, peerLists, last>>

\* The constructor's arguments and whether it returned.
identity == <<instance, userType, sessionId, participantId>>

peerVars == <<handlers, handlerCalls, transports, subPc, subNeg, remoteStream, registry,
              peerList, prevList, peerLists>>

\* The record of a step: op is the handler or call that ran, threw whether it
\* raised to its caller, out what it did, id and tr the peer it was about, hs
\* the handlers it invoked on api, in order, steps the teardown steps of stop()
\* it ran, in order.
StepOf(op, threw, out, id, tr) ==
    [op |-> op, threw |-> threw, out |-> out, id |-> id, tr |-> tr, hs |-> <<>>,
     steps |-> <<>>]

\* Calls and payloads so far that count against MaxCalls; the negotiation
\* message of a SubConnection (it carries a peer id) is no call of its own: each
\* SubConnection sends at most one.
Calls == stopCalls + Len(SelectSeq(dcOut, LAMBDA m : m.id = "")) + handlerCalls

Step(op, threw) == StepOf(op, threw, "", "", 0)

\* ------------------------------------------------------------ Connection
\* Faulty variant of setState: the state is set and no subscriber is notified.
SetStateNoTrigger(s) ==
    /\ state' = s
    /\ notified' = notified

\* setState(state): this._state = state; connectionStateChange.trigger(state).
setState(s) ==
    /\ state' = s
    /\ notified' = Append(notified, s)

\* Faulty variant of the guard of start(): a FAILED instance may start again.
StartAllowedAfterFailure == state \in {"NOT_STARTED", "FAILED"}

\* The guard of start(): the state must be NOT_STARTED.
StartAllowed == state = "NOT_STARTED"

\* Faulty variant of the guard of sendMessage(): the channel's readyState is
\* tested in place of the ConnectionState.
CanSendWhenOpen == dc = "open"

\* The guard of sendMessage(): the state must be CONNECTED.
CanSend == state = "CONNECTED"

\* mainPc has transceivers once tracks were added or the offer was created.
HasTransceivers == tracksAdded \/ neg \notin {"idle", "offer"}

\* The handler the Connection subscribes to peer announcements.
ConnectionHandler == "Connection.handleConnectionProposal"

\* The handler the Connection subscribes to the answers to its SubConnections'
\* offers.
AnswerHandler == "Connection.handleConnectionAnswer"

\* A remote stream as its constructor leaves it: new MediaStream(), and no
\* remoteStreamChange notification yet.
NoStream == [tracks |-> <<>>, changes |-> 0]

\* A message written to the control channel: its type and the peer id its data
\* carries ("" when it carries none).
Message(type, id) == [type |-> type, id |-> id]

\* The handlers of SESSION_LIST: the application's and the ConnectionTest page's.
AppHandler == "App.handleSessionList"

PageHandler == "ConnectionTest.handleSessionList"

ApiHandlers == {AppHandler, PageHandler}

\* Values of the optional arguments sessionId and participantId: left out, the
\* empty string, or an id.
SessionIds == {"undefined", "", "S"}

ParticipantIds == {"undefined", "", "U"}

\* The argument lists the constructor is called with.
Constructions ==
    {<<"experimenter", "undefined", "undefined">>}
    \cup {<<"participant", sid, pid>> : sid \in SessionIds, pid \in ParticipantIds}

\* Faulty variant of Falsy: only a left-out argument counts as missing.
FalsyUndefinedOnly(x) == x = "undefined"

\* !x for a string or undefined.
Falsy(x) == x \in {"undefined", ""}

\* The check of the constructor: a participant without participantId or
\* sessionId.
ConstructorThrows(ut, sid, pid) == ut = "participant" /\ (Falsy(pid) \/ Falsy(sid))

\* constructor(userType, sessionId?, participantId?): when it throws there is no
\* instance, no mainPc and no data channel; otherwise the instance is
\* NOT_STARTED with a fresh mainPc and the data channel "API".
Init ==
    /\ \E c \in Constructions :
         /\ userType = c[1] /\ sessionId = c[2] /\ participantId = c[3]
         /\ instance = ~ConstructorThrows(c[1], c[2], c[3])
    /\ state = IF instance THEN "NOT_STARTED" ELSE "undefined"
    /\ dc = IF instance THEN "connecting" ELSE "undefined"
    /\ last = Step("new", ~instance)
    /\ notified = <<>>
    /\ neg = "idle"
    /\ requests = 0
    /\ gather = IF instance THEN "new" ELSE "undefined"
    /\ remoteSet = FALSE
    /\ tracksAdded = FALSE
    /\ pcClosed = FALSE
    /\ timers = 0
    /\ dcOut = <<>>
    /\ stopRuns = 0
    /\ stopCalls = 0
    /\ transceiverStops = 0
    /\ trackStops = 0
    /\ pcCloses = 0
    /\ handlers = <<[type |-> "CONNECTION_PROPOSAL", h |-> ConnectionHandler],
                     [type |-> "SESSION_LIST", h |-> AppHandler],
                     [type |-> "CONNECTION_OFFER", h |-> ConnectionHandler],
                     [type |-> "CONNECTION_ANSWER", h |-> AnswerHandler]>>
    /\ handlerCalls = 0
    /\ transports = <<>>
    /\ subPc = <<>>
    /\ subNeg = <<>>
    /\ remoteStream = [t \in {0} |-> NoStream]
    /\ registry = <<>>
    /\ peerList = <<>>
    /\ prevList = <<>>
    /\ peerLists = 0

\* Faulty variant of the media check of start(): no identity needs a stream.
MediaRequiredNever == FALSE

\* The media check of start(): a participant needs a localStream.
MediaRequired == userType = "participant"

\* start(localStream?)
start(hasStream) ==
    /\ instance
    /\ IF (~hasStream /\ MediaRequired) \/ ~StartAllowed
       THEN /\ last' = Step("start", TRUE)
            /\ UNCHANGED <<peerVars, identity, state, notified, neg, requests, gather, remoteSet,
                           tracksAdded, pcClosed, timers, dc, dcOut, stopRuns,
                           stopCalls, transceiverStops, trackStops, pcCloses>>
       ELSE /\ setState("CONNECTING")
            /\ tracksAdded' = hasStream
            /\ neg' = "offer"
            /\ last' = Step("start", FALSE)
            /\ UNCHANGED <<peerVars, identity, requests, gather, remoteSet, pcClosed, timers, dc,
                           dcOut, stopRuns, stopCalls, transceiverStops,
                           trackStops, pcCloses>>

\* The statements of stop() in their order: setState(DISCONNECTED); the return
\* when mainPc is closed; the transceivers stopped; the tracks of the senders
\* stopped; the close of mainPc handed to setTimeout.
StopSteps(closed) ==
    IF closed THEN <<"setState">>
    ELSE <<"setState", "transceivers", "tracks", "setTimeout">>

\* The body of stop(), shared by the explicit call and by dc.onclose.
stopBody ==
    /\ setState("DISCONNECTED")
    /\ stopRuns' = stopRuns + 1
    /\ IF pcClosed
       THEN UNCHANGED <<transceiverStops, trackStops, timers>>
       ELSE /\ transceiverStops' = transceiverStops + (IF HasTransceivers THEN 1 ELSE 0)
            /\ trackStops' = trackStops + (IF tracksAdded THEN 1 ELSE 0)
            /\ timers' = timers + 1

\* stop()
stop ==
    /\ instance
    /\ Calls < MaxCalls
    /\ stopCalls' = stopCalls + 1
    /\ stopBody
    /\ last' = [Step("stop", FALSE) EXCEPT !.steps = StopSteps(pcClosed)]
    /\ UNCHANGED <<peerVars, identity, neg, requests, gather, remoteSet, tracksAdded, pcClosed,
                   dc, dcOut, pcCloses>>

\* The callback of setTimeout in stop(): mainPc.close().
CloseTimer ==
    /\ timers > 0
    /\ timers' = timers - 1
    /\ pcClosed' = TRUE
    /\ pcCloses' = pcCloses + 1
    /\ last' = Step("closeTimer", FALSE)
    /\ UNCHANGED <<peerVars, identity, state, notified, neg, requests, gather, remoteSet,
                   tracksAdded, dc, dcOut, stopRuns, stopCalls,
                   transceiverStops, trackStops>>

\* sendMessage(endpoint, data)
sendMessage(endpoint) ==
    /\ instance
    /\ IF ~CanSend
       THEN /\ last' = Step("sendMessage", TRUE)
            /\ UNCHANGED <<peerVars, identity, state, notified, neg, requests, gather, remoteSet,
                           tracksAdded, pcClosed, timers, dc, dcOut, stopRuns,
                           stopCalls, transceiverStops, trackStops, pcCloses>>
       ELSE /\ Calls < MaxCalls
            /\ IF dc = "open"
               THEN dcOut' = Append(dcOut, Message(endpoint, "")) /\ last' = Step("sendMessage", FALSE)
               ELSE dcOut' = dcOut /\ last' = Step("sendMessage", TRUE)
            /\ UNCHANGED <<peerVars, identity, state, notified, neg, requests, gather, remoteSet,
                           tracksAdded, pcClosed, timers, dc, stopRuns,
                           stopCalls, transceiverStops, trackStops, pcCloses>>

\* dc.onopen: the control channel opens once the transport is established,
\* which needs the remote description.
DcOpen ==
    /\ dc = "connecting"
    /\ remoteSet
    /\ ~pcClosed
    /\ dc' = "open"
    /\ setState("CONNECTED")
    /\ last' = Step("dcOpen", FALSE)
    /\ UNCHANGED <<peerVars, identity, neg, requests, gather, remoteSet, tracksAdded, pcClosed,
                   timers, dcOut, stopRuns, stopCalls, transceiverStops,
                   trackStops, pcCloses>>

\* dc.onclose: the remote end closes an open channel, or mainPc.close() closed it.
DcClose ==
    /\ dc # "closed"
    /\ dc = "open" \/ pcClosed
    /\ dc' = "closed"
    /\ stopBody
    /\ last' = [Step("dcClose", FALSE) EXCEPT !.steps = StopSteps(pcClosed)]
    /\ UNCHANGED <<peerVars, identity, neg, requests, gather, remoteSet, tracksAdded, pcClosed,
                   dcOut, stopCalls, pcCloses>>

\* Connection states mainPc reports once its transport is set up: the transport
\* is lost (failed), or closed after mainPc.close().
MainPcStates == {"failed", "closed"}

\* The iceconnectionstatechange listener of mainPc: it logs the state.
MainPcStateChange(s) ==
    /\ remoteSet
    /\ (s = "closed") = pcClosed
    /\ last' = StepOf("mainPcState", FALSE, s, "", 0)
    /\ UNCHANGED <<peerVars, identity, state, notified, neg, requests, gather, remoteSet,
                   tracksAdded, pcClosed, timers, dc, dcOut, stopRuns, stopCalls,
                   transceiverStops, trackStops, pcCloses>>

\* ------------------------------------------------------------ negotiate()
NegUnchanged ==
    UNCHANGED <<peerVars, identity, gather, tracksAdded, pcClosed, timers, dc, dcOut, stopRuns,
                stopCalls, transceiverStops, trackStops, pcCloses>>

\* The states an icegatheringstatechange event of mainPc reports once
\* setLocalDescription started the gathering.
GatheringStates == {"gathering", "complete"}

\* Faulty variant of AlreadyComplete: the wait subscribes without looking at the
\* state it starts in.
AlreadyCompleteNever(g) == FALSE

\* The test the wait makes when it starts: iceGatheringState === "complete".
AlreadyComplete(g) == g = "complete"

\* The test of the listener checkState: iceGatheringState === "complete".
GatheringComplete(g) == g = "complete"

\* createOffer and setLocalDescription resolved and the wait for ICE gathering
\* starts; on a closed mainPc they reject. When the gathering is complete
\* already the wait resolves at once and negotiate() goes on to build the request
\* and call fetch; otherwise checkState is subscribed.
NegOffer ==
    /\ neg = "offer"
    /\ IF pcClosed
       THEN /\ neg' = "threw"
            /\ requests' = requests
            /\ last' = Step("negOffer", TRUE)
       ELSE IF AlreadyComplete(gather)
       THEN /\ neg' = "fetch"
            /\ requests' = requests + 1
            /\ last' = StepOf("negOffer", FALSE, "resumed", "", 0)
       ELSE /\ neg' = "gathering"
            /\ requests' = requests
            /\ last' = StepOf("negOffer", FALSE, "waiting", "", 0)
    /\ UNCHANGED <<state, notified, remoteSet>>
    /\ NegUnchanged

\* An icegatheringstatechange event of mainPc, iceGatheringState being s: the
\* listener of initMainPeerConnection logs it; checkState, while it is
\* subscribed, removes itself and resolves the wait when s is "complete", and
\* negotiate() goes on to build the request and call fetch.
IceGatheringStateChange(s) ==
    /\ neg # "idle"
    /\ ~pcClosed
    /\ s # gather
    /\ gather' = s
    /\ IF neg = "gathering" /\ GatheringComplete(s)
       THEN /\ neg' = "fetch"
            /\ requests' = requests + 1
            /\ last' = Step("negGathered", FALSE)
       ELSE /\ UNCHANGED <<neg, requests>>
            /\ last' = StepOf("gatheringState", FALSE, s, "", 0)
    /\ UNCHANGED <<peerVars, identity, state, notified, remoteSet, tracksAdded, pcClosed,
                   timers, dc, dcOut, stopRuns, stopCalls, transceiverStops,
                   trackStops, pcCloses>>

\* iceGatheringState is "complete": the request is built and fetch is called.
NegGathered ==
    /\ neg = "gathering"
    /\ IceGatheringStateChange("complete")

\* fetch rejected (transport fault), or the response is not ok.
NegRequestFailed(fault) ==
    /\ neg = "fetch"
    /\ setState("FAILED")
    /\ neg' = "failed"
    /\ last' = Step(fault, FALSE)
    /\ UNCHANGED <<requests, remoteSet>>
    /\ NegUnchanged

\* fetch resolved with response.ok.
NegResponseOk ==
    /\ neg = "fetch"
    /\ neg' = "json"
    /\ last' = Step("negResponseOk", FALSE)
    /\ UNCHANGED <<state, notified, requests, remoteSet>>
    /\ NegUnchanged

\* response.json() resolved with an answer of the given type, or rejected.
NegAnswer(parsed, type) ==
    /\ neg = "json"
    /\ neg' = IF ~parsed THEN "threw"
              ELSE IF type # "SESSION_DESCRIPTION" THEN "unexpected"
              ELSE "setRemote"
    /\ last' = Step("negAnswer", ~parsed)
    /\ UNCHANGED <<state, notified, requests, remoteSet>>
    /\ NegUnchanged

\* mainPc.setRemoteDescription(answer.data) resolved or rejected.
NegSetRemote(accepted) ==
    /\ neg = "setRemote"
    /\ accepted => ~pcClosed
    /\ neg' = IF accepted THEN "done" ELSE "rejected"
    /\ remoteSet' = accepted
    /\ last' = Step("negSetRemote", ~accepted)
    /\ UNCHANGED <<state, notified, requests>>
    /\ NegUnchanged

\* ------------------------------------------------- inbound control channel
PeerIds == {"a", "b"}

\* A payload of a "message" event of the control channel: json is whether
\* JSON.parse accepts it, typeOf the JavaScript type of its field type, hasData
\* whether the field data is present, id the peer id of an announcement.
Payload(json, typeOf, type, hasData, id) ==
    [json |-> json, typeOf |-> typeOf, type |-> type, hasData |-> hasData, id |-> id]

NotJson == Payload(FALSE, "undefined", "", FALSE, "")

\* {"type": 5}
NumericType == Payload(TRUE, "number", "5", FALSE, "")

\* {"type": "SESSION_LIST"}: the envelope lacks data.
NoData == Payload(TRUE, "string", "SESSION_LIST", FALSE, "")

MalformedPayloads == {NotJson, NumericType, NoData}

ValidPayloads ==
    {Payload(TRUE, "string", "SESSION_LIST", TRUE, "")}
    \cup {Payload(TRUE, "string", "CONNECTION_PROPOSAL", TRUE, id) : id \in PeerIds}

Payloads == MalformedPayloads \cup ValidPayloads

\* Peer ids an answer may carry: the announced ones and one never announced.
AnswerIds == PeerIds \cup {"x"}

\* The payloads of the negotiation of the SubConnections: the announcement of
\* the protocol in which the client answers (it carries the remote offer), and
\* the answer to a SubConnection's offer.
NegotiationPayloads ==
    {Payload(TRUE, "string", "CONNECTION_OFFER", TRUE, id) : id \in PeerIds}
    \cup {Payload(TRUE, "string", "CONNECTION_ANSWER", TRUE, id) : id \in AnswerIds}

\* The types of the peer announcements.
AnnouncementTypes == {"CONNECTION_PROPOSAL", "CONNECTION_OFFER"}

\* Types the application subscribes a handler to with connection.api.on.
AppSubscribed == {"SESSION_LIST"}

\* Types with a handler on api: the application's, and the Connection's own
\* handler of peer announcements.
Subscribed == {handlers[i].type : i \in DOMAIN handlers}

\* Faulty variant of Matching: only the handler subscribed first is invoked.
MatchingFirst(hs, type) ==
    LET m == SelectSeq(hs, LAMBDA e : e.type = type)
    IN IF m = <<>> THEN m ELSE <<m[1]>>

\* api.trigger(type, data) invokes the handlers subscribed to the type, in the
\* order of their subscription.
Matching(hs, type) == SelectSeq(hs, LAMBDA e : e.type = type)

HandlerNames(hs) == [i \in DOMAIN hs |-> hs[i].h]

\* api.on(type, h), for a handler that is not subscribed to the type.
on(type, h) ==
    /\ instance
    /\ [type |-> type, h |-> h] \notin {handlers[i] : i \in DOMAIN handlers}
    /\ handlers' = Append(handlers, [type |-> type, h |-> h])
    /\ last' = Step("on", FALSE)
    /\ UNCHANGED <<identity, state, notified, neg, requests, gather, remoteSet,
                   tracksAdded, pcClosed, timers, dc, dcOut, stopRuns,
                   stopCalls, transceiverStops, trackStops, pcCloses, handlerCalls,
                   transports, subPc, subNeg, remoteStream, registry, peerList,
                   prevList, peerLists>>

\* api.off(type, h)
off(type, h) ==
    /\ instance
    /\ handlers' = SelectSeq(handlers, LAMBDA e : e # [type |-> type, h |-> h])
    /\ last' = Step("off", FALSE)
    /\ UNCHANGED <<identity, state, notified, neg, requests, gather, remoteSet,
                   tracksAdded, pcClosed, timers, dc, dcOut, stopRuns,
                   stopCalls, transceiverStops, trackStops, pcCloses, handlerCalls,
                   transports, subPc, subNeg, remoteStream, registry, peerList,
                   prevList, peerLists>>

\* isValidMessage(message): the envelope {type: string, data: any}.
isValidMessage(p) == p.typeOf = "string" /\ p.hasData

\* Faulty variant of the checks of handleDcMessage: a message is dropped unless
\* the Connection is CONNECTED.
DispatchableWhenConnected(p) == p.json /\ isValidMessage(p) /\ state = "CONNECTED"

\* Faulty variant of the checks of handleDcMessage: isValidMessage is skipped.
DispatchableUnvalidated(p) == p.json

\* handleDcMessage dispatches what JSON.parse accepts and isValidMessage passes.
Dispatchable(p) == p.json /\ isValidMessage(p)

\* ------------------------------------------------------------ Peer Registry
\* The Connection's handlers of peer announcements and of connectionClosed follow
\* the design document (Primary Connection, peer lifecycle handling).
\* The registry maps a peer id to its entry: set replaces the entry of an id
\* that is present and appends otherwise; delete removes the entry of the id.
RegistrySet(reg, id, t) ==
    IF \E i \in DOMAIN reg : reg[i].id = id
    THEN [i \in DOMAIN reg |-> IF reg[i].id = id THEN [id |-> id, tr |-> t] ELSE reg[i]]
    ELSE Append(reg, [id |-> id, tr |-> t])

RegistryKeep(e, id) == e.id # id

RegistryDelete(reg, id) == SelectSeq(reg, LAMBDA e : RegistryKeep(e, id))

\* Faulty variant of Held: the emitted list is the registry itself.
HeldLive(list, reg) == reg

\* What a subscriber that kept an emitted list sees once the registry is reg:
\* the emitted list is a copy, so the list as it was emitted.
Held(list, reg) == list

\* The peer-announcement handler: construct the SubConnection, add it to the
\* registry under its id and emit the peer list.
handleConnectionProposal(id) ==
    /\ transports' = Append(transports, [id |-> id, stopped |-> FALSE])
    /\ subPc' = Append(subPc, [closes |-> 0, emitted |-> <<>>])
    /\ remoteStream' = [t \in 0..(Len(transports) + 1) |->
                          IF t <= Len(transports) THEN remoteStream[t] ELSE NoStream]
    /\ registry' = RegistrySet(registry, id, Len(transports) + 1)
    /\ peerList' = registry'
    /\ prevList' = Held(peerList, registry')
    /\ peerLists' = peerLists + 1

\* The entry point of the negotiation the announcement handler calls: start()
\* when the announcement carries the remote offer, sendOffer() otherwise.
EntryPoint(type) == IF type = "CONNECTION_OFFER" THEN "start" ELSE "sendOffer"

\* Faulty variant of Negotiation: start() creates its answer without applying
\* the remote description first.
NegotiationSkipsRemote(entry) ==
    [entry |-> entry, pos |-> IF entry = "start" THEN "answer" ELSE "offer", remote |-> ""]

\* The negotiation of a SubConnection whose entry point ran to its first await:
\* start() waits for setRemoteDescription(initialOffer.offer), sendOffer() for
\* createOffer(). remote is the peer id the remote description that was applied
\* came with ("" while none is applied).
Negotiation(entry) ==
    [entry |-> entry, pos |-> IF entry = "start" THEN "remote" ELSE "offer", remote |-> ""]

\* Faulty variant of Lookup: the transport registered first, whatever its id.
LookupFirst(reg, id) == IF reg = <<>> THEN 0 ELSE reg[1].tr

\* The transport the registry holds under the id, 0 when it holds none.
Lookup(reg, id) ==
    IF \E i \in DOMAIN reg : reg[i].id = id
    THEN reg[CHOOSE i \in DOMAIN reg : reg[i].id = id].tr
    ELSE 0

\* The SubConnection t has set its own offer as local description and has no
\* remote description: its pc accepts an answer.
AwaitsAnswer(t) ==
    /\ ~transports[t].stopped
    /\ subNeg[t].entry = "sendOffer"
    /\ subNeg[t].pos \in {"sent", "sendFailed"}
    /\ subNeg[t].remote = ""

\* handleAnswer(answer) of the SubConnection t: pc.setRemoteDescription with the
\* answer, which the pc rejects unless it awaits one.
handleAnswer(t, id) ==
    subNeg' = IF AwaitsAnswer(t) THEN [subNeg EXCEPT ![t].remote = id] ELSE subNeg

\* The answer handler of the Connection: the answer goes to the SubConnection
\* registered under the peer id it carries; with none it is logged and dropped.
handleConnectionAnswer(id) ==
    IF Lookup(registry, id) = 0
    THEN subNeg' = subNeg
    ELSE handleAnswer(Lookup(registry, id), id)

\* handleDcMessage(e)
handleDcMessage(p) ==
    /\ dc = "open"
    /\ IF ~Dispatchable(p)
       THEN /\ last' = StepOf("dcMessage", FALSE, "dropped", "", 0)
            /\ UNCHANGED <<handlerCalls, transports, subPc, subNeg, remoteStream,
                           registry, peerList, prevList, peerLists>>
       ELSE LET hs == HandlerNames(Matching(handlers, p.type)) IN
            /\ Calls + Len(hs) <= MaxCalls
            /\ handlerCalls' = handlerCalls + Len(hs)
            /\ IF p.type \in AnnouncementTypes
               THEN /\ handleConnectionProposal(p.id)
                    /\ subNeg' = Append(subNeg, Negotiation(EntryPoint(p.type)))
                    /\ last' = [StepOf("dcMessage", FALSE, "announced", p.id,
                                       Len(transports) + 1) EXCEPT !.hs = hs]
               ELSE IF p.type = "CONNECTION_ANSWER"
               THEN /\ handleConnectionAnswer(p.id)
                    /\ last' = [StepOf("dcMessage", FALSE,
                                       IF Lookup(registry, p.id) = 0 THEN "answerDropped"
                                       ELSE "answered", p.id, Lookup(registry, p.id))
                                  EXCEPT !.hs = hs]
                    /\ UNCHANGED <<transports, subPc, remoteStream, registry, peerList,
                                   prevList, peerLists>>
               ELSE /\ last' = [StepOf("dcMessage", FALSE,
                                       IF last.out = "dropped" THEN "dispatchedAfterDrop"
                                       ELSE "dispatched", "", 0) EXCEPT !.hs = hs]
                    /\ UNCHANGED <<transports, subPc, subNeg, remoteStream, registry,
                                   peerList, prevList, peerLists>>
    /\ UNCHANGED <<identity, state, notified, neg, requests, gather, remoteSet,
                   tracksAdded, pcClosed, timers, dc, dcOut, stopRuns,
                   stopCalls, transceiverStops, trackStops, pcCloses, handlers>>

\* ------------------------------------------------------------ SubConnection
IceStates == {"new", "checking", "connected", "completed", "disconnected", "failed",
              "closed"}

SignalingStates == {"stable", "have-local-offer", "closed"}

\* A status event pc.close() raises while stop() runs, if any: the event and the
\* status it reports.
Reentrant == {<<"none", "">>, <<"ice", "closed">>, <<"signaling", "closed">>}

\* Faulty variant of the test of handleIceConnectionStateChange: the status is
\* looked up with "in" among the indices of the array.
StopsOnIceIndex(s) == s \in {"0", "1", "2"}

\* The test of handleIceConnectionStateChange.
StopsOnIce(s) == s \in {"disconnected", "closed", "failed"}

\* The test of handleSignalingStateChange.
StopsOnSignaling(s) == s = "closed"

\* Faulty variant of the id stop() emits: the id of the first SubConnection.
ClosedIdFirst(t) == transports[1].id

\* The id stop() passes to emit("connectionClosed", ...).
ClosedId(t) == transports[t].id

\* The fields of the SubConnection t that stop() reads and writes.
SubRec(t) ==
    [stopped |-> transports[t].stopped, closes |-> subPc[t].closes,
     emitted |-> subPc[t].emitted]

\* Faulty variant of MarkStopped: the flag is left unset.
MarkStoppedNever(r) == r

\* this.stopped = true
MarkStopped(r) == [r EXCEPT !.stopped = TRUE]

\* The transceivers are stopped and pc.close() is called.
ClosePc(r) == [r EXCEPT !.closes = @ + 1]

\* this.emit("connectionClosed", this.id)
EmitClosed(r, id) == [r EXCEPT !.emitted = Append(@, id)]

\* stop() entered from a handler that runs inside pc.close().
StopNested(r, id) ==
    IF r.stopped THEN r ELSE EmitClosed(ClosePc(MarkStopped(r)), id)

\* The handler of the status event e, run inside pc.close().
StatusEvent(r, id, e) ==
    IF (e[1] = "ice" /\ StopsOnIce(e[2])) \/ (e[1] = "signaling" /\ StopsOnSignaling(e[2]))
    THEN StopNested(r, id)
    ELSE r

\* stop(): the fields after the call, e being the event pc.close() raises.
StopSub(r, id, e) ==
    IF r.stopped THEN r
    ELSE EmitClosed(StatusEvent(ClosePc(MarkStopped(r)), id, e), id)

\* The connectionClosed handler of the Connection: remove the entry of the id
\* and emit the peer list.
handleConnectionClosed(id) ==
    /\ registry' = RegistryDelete(registry, id)
    /\ peerList' = registry'
    /\ prevList' = Held(peerList, registry')
    /\ peerLists' = peerLists + 1

\* The body of SubConnection.stop(), run by the step op.
subStopBody(op, t, e) ==
    LET r == StopSub(SubRec(t), ClosedId(t), e) IN
    IF r.emitted = subPc[t].emitted
    THEN /\ last' = StepOf("sub", FALSE, "ignored", "", 0)
         /\ UNCHANGED <<transports, subPc, registry, peerList, prevList, peerLists>>
    ELSE /\ transports' = [transports EXCEPT ![t].stopped = r.stopped]
         /\ subPc' = [subPc EXCEPT ![t] = [closes |-> r.closes, emitted |-> r.emitted]]
         /\ handleConnectionClosed(ClosedId(t))
         /\ last' = StepOf(op, FALSE, "closed", transports[t].id, t)

PrimaryUnchanged ==
    UNCHANGED <<identity, state, notified, neg, requests, gather, remoteSet,
                tracksAdded, pcClosed, timers, dc, dcOut, stopRuns, stopCalls,
                transceiverStops, trackStops, pcCloses, handlers, handlerCalls,
                subNeg, remoteStream>>

\* stop() called on a SubConnection.
subStop(t) ==
    /\ \E e \in Reentrant : subStopBody("sub", t, e)
    /\ PrimaryUnchanged

\* handleIceConnectionStateChange with pc.iceConnectionState = s; a closed pc
\* raises no event after close() returned.
handleIceConnectionStateChange(t, s) ==
    /\ ~transports[t].stopped
    /\ IF StopsOnIce(s)
       THEN \E e \in Reentrant : subStopBody("subStatus", t, e)
       ELSE /\ last' = StepOf("sub", FALSE, "ignored", "", 0)
            /\ UNCHANGED <<transports, subPc, registry, peerList, prevList, peerLists>>
    /\ PrimaryUnchanged

\* handleSignalingStateChange with pc.signalingState = s; a closed pc raises no
\* event after close() returned.
handleSignalingStateChange(t, s) ==
    /\ ~transports[t].stopped
    /\ IF StopsOnSignaling(s)
       THEN \E e \in Reentrant : subStopBody("subStatus", t, e)
       ELSE /\ last' = StepOf("sub", FALSE, "ignored", "", 0)
            /\ UNCHANGED <<transports, subPc, registry, peerList, prevList, peerLists>>
    /\ PrimaryUnchanged

\* ------------------------------------------- negotiation of a SubConnection
\* Faulty variant of OwnId: the id of the SubConnection constructed first.
OwnIdFirst(t) == transports[1].id

\* this.id, the label of the negotiation message.
OwnId(t) == transports[t].id

\* Faulty variant of PcUsable: a closed pc still carries out its operations.
PcUsableAlways(t) == TRUE

\* The operations of pc (setRemoteDescription, createAnswer, createOffer,
\* setLocalDescription) resolve only while pc is not closed; stop() closes it.
PcUsable(t) == ~transports[t].stopped

SubUnchanged ==
    UNCHANGED <<identity, state, notified, neg, requests, gather, remoteSet,
                tracksAdded, pcClosed, timers, dc, stopRuns, stopCalls,
                transceiverStops, trackStops, pcCloses, handlers, handlerCalls,
                transports, subPc, remoteStream, registry, peerList, prevList,
                peerLists>>

\* An await of start() or sendOffer() rejected: the call ends with the error and
\* sends nothing.
SubThrew(t, at) ==
    /\ subNeg' = [subNeg EXCEPT ![t].pos = "threw"]
    /\ dcOut' = dcOut
    /\ last' = StepOf("subNeg", TRUE, at, "", 0)

\* The last statement of start() and of sendOffer():
\* this.connection.sendMessage(type, {id: this.id, ...}), which throws unless
\* the Connection is CONNECTED (and its channel open).
SubSend(t, type) ==
    IF CanSend /\ dc = "open"
    THEN /\ dcOut' = Append(dcOut, Message(type, OwnId(t)))
         /\ subNeg' = [subNeg EXCEPT ![t].pos = "sent"]
         /\ last' = StepOf("subSend", FALSE, type, "", 0)
    ELSE /\ dcOut' = dcOut
         /\ subNeg' = [subNeg EXCEPT ![t].pos = "sendFailed"]
         /\ last' = StepOf("subSend", TRUE, type, "", 0)

\* start(): pc.setRemoteDescription(initialOffer.offer) resolved or rejected.
SubSetRemote(t, accepted) ==
    /\ subNeg[t].pos = "remote"
    /\ IF accepted /\ PcUsable(t)
       THEN /\ subNeg' = [subNeg EXCEPT ![t].pos = "answer", ![t].remote = transports[t].id]
            /\ dcOut' = dcOut
            /\ last' = StepOf("subNeg", FALSE, "remote", "", 0)
       ELSE SubThrew(t, "remote")
    /\ SubUnchanged

\* start(): pc.createAnswer() and pc.setLocalDescription(answer) resolved and
\* the answer is sent, or they rejected on a closed pc.
SubAnswerReady(t) ==
    /\ subNeg[t].pos = "answer"
    /\ IF PcUsable(t) THEN SubSend(t, "CONNECTION_ANSWER") ELSE SubThrew(t, "answer")
    /\ SubUnchanged

\* sendOffer(): this.createOffer() resolved and the offer is sent, or it
\* rejected on a closed pc.
SubOfferCreated(t) ==
    /\ subNeg[t].pos = "offer"
    /\ IF PcUsable(t) THEN SubSend(t, "CONNECTION_OFFER") ELSE SubThrew(t, "offer")
    /\ SubUnchanged

\* ------------------------------------------------------------ remote streams
\* Tracks added to remote streams in a run.
MaxTracks == 2

\* Values of e.track.kind: the two kinds of a MediaStreamTrack, and another.
TrackKinds == {"audio", "video", "other"}

\* Faulty variant of AcceptedKind: the kind is not tested.
AcceptedKindAny(k) == TRUE

\* The test of the track listeners: the kind is "video" or "audio".
AcceptedKind(k) == k \in {"video", "audio"}

RECURSIVE TracksUpTo(_)
TracksUpTo(t) ==
    Len(remoteStream[t].tracks) + (IF t = 0 THEN 0 ELSE TracksUpTo(t - 1))

\* Tracks in the remote streams of mainPc and of the SubConnections.
TotalTracks == TracksUpTo(Len(transports))

\* The transport has a remote description and is not closed: its pc receives
\* tracks.
Receives(t) ==
    IF t = 0 THEN remoteSet /\ ~pcClosed
    ELSE subNeg[t].remote # "" /\ ~transports[t].stopped

\* The track listener of mainPc (t = 0) or of the SubConnection t, e.track.kind
\* being k: a track of another kind is logged; a video or audio track is added
\* to the remote stream and remoteStreamChange is notified.
OnTrack(t, k) ==
    /\ Receives(t)
    /\ IF AcceptedKind(k)
       THEN /\ TotalTracks < MaxTracks
            /\ remoteStream' = [remoteStream EXCEPT ![t] =
                                  [tracks |-> Append(@.tracks, k), changes |-> @.changes + 1]]
       ELSE remoteStream' = remoteStream
    /\ last' = StepOf("track", FALSE, k, "", t)
    /\ UNCHANGED <<identity, state, notified, neg, requests, gather, remoteSet,
                   tracksAdded, pcClosed, timers, dc, dcOut, stopRuns, stopCalls,
                   transceiverStops, trackStops, pcCloses, handlers, handlerCalls,
                   transports, subPc, subNeg, registry, peerList, prevList, peerLists>>

\* ------------------------------------------------------------ specification
Next ==
    \/ \E hasStream \in BOOLEAN : start(hasStream)
    \/ stop
    \/ CloseTimer
    \/ \E endpoint \in {"GET_SESSION_LIST"} : sendMessage(endpoint)
    \/ DcOpen
    \/ DcClose
    \/ \E s \in MainPcStates : MainPcStateChange(s)
    \/ NegOffer
    \/ NegGathered
    \/ \E fault \in {"fetchThrew", "responseNotOk"} : NegRequestFailed(fault)
    \/ NegResponseOk
    \/ \E parsed \in BOOLEAN, type \in AnswerTypes : NegAnswer(parsed, type)
    \/ \E accepted \in BOOLEAN : NegSetRemote(accepted)
    \/ \E p \in Payloads : handleDcMessage(p)
    \/ \E t \in DOMAIN transports : subStop(t)
    \/ \E t \in DOMAIN transports, s \in IceStates : handleIceConnectionStateChange(t, s)
    \/ \E t \in DOMAIN transports, s \in SignalingStates : handleSignalingStateChange(t, s)

Spec == Init /\ [][Next]_vars

\* The assumptions of a negotiation that is answered: every await of negotiate()
\* settles (the offer is created, ICE gathering completes, the backend answers
\* the request and its body arrives, the remote description is applied or
\* rejected), and the control channel opens or closes when it can.
Fairness ==
    /\ WF_vars(NegOffer)
    /\ WF_vars(NegGathered)
    /\ WF_vars((\E fault \in {"fetchThrew", "responseNotOk"} : NegRequestFailed(fault))
                 \/ NegResponseOk)
    /\ WF_vars(\E parsed \in BOOLEAN, type \in AnswerTypes : NegAnswer(parsed, type))
    /\ WF_vars(\E accepted \in BOOLEAN : NegSetRemote(accepted))
    /\ WF_vars(DcOpen \/ DcClose)

SpecLive == Init /\ [][Next]_vars /\ Fairness

\* The session without teardown: start(), the negotiation, the control channel
\* opening, inbound payloads and the SubConnections.
NextPeers ==
    \/ \E hasStream \in BOOLEAN : start(hasStream)
    \/ DcOpen
    \/ NegOffer
    \/ NegGathered
    \/ NegResponseOk
    \/ \E parsed \in BOOLEAN, type \in AnswerTypes : NegAnswer(parsed, type)
    \/ \E accepted \in BOOLEAN : NegSetRemote(accepted)
    \/ \E p \in Payloads : handleDcMessage(p)
    \/ \E t \in DOMAIN transports : subStop(t)
    \/ \E t \in DOMAIN transports, s \in IceStates : handleIceConnectionStateChange(t, s)
    \/ \E t \in DOMAIN transports, s \in SignalingStates : handleSignalingStateChange(t, s)

SpecPeers == Init /\ [][NextPeers]_vars

\* The session of the message dispatcher: start(), the negotiation, the control
\* channel opening, subscriptions on api and inbound payloads.
NextApi ==
    \/ \E hasStream \in BOOLEAN : start(hasStream)
    \/ DcOpen
    \/ NegOffer
    \/ NegGathered
    \/ NegResponseOk
    \/ \E parsed \in BOOLEAN, type \in AnswerTypes : NegAnswer(parsed, type)
    \/ \E accepted \in BOOLEAN : NegSetRemote(accepted)
    \/ \E type \in AppSubscribed, h \in ApiHandlers : on(type, h)
    \/ \E type \in AppSubscribed, h \in ApiHandlers : off(type, h)
    \/ \E p \in Payloads : handleDcMessage(p)

SpecApi == Init /\ [][NextApi]_vars

\* A peer announcement of the given type arrives for a peer that was not
\* announced before: the backend announces a peer once.
Announced(type, id) ==
    /\ \A t \in DOMAIN transports : transports[t].id # id
    /\ handleDcMessage(Payload(TRUE, "string", type, TRUE, id))

\* The session of the negotiation with the backend: start(), stop() and its
\* delayed close, the control channel, every await of negotiate(), and the
\* icegatheringstatechange events of mainPc in any order.
NextGather ==
    \/ \E hasStream \in BOOLEAN : start(hasStream)
    \/ stop
    \/ CloseTimer
    \/ DcOpen
    \/ DcClose
    \/ NegOffer
    \/ \E s \in GatheringStates : IceGatheringStateChange(s)
    \/ \E fault \in {"fetchThrew", "responseNotOk"} : NegRequestFailed(fault)
    \/ NegResponseOk
    \/ \E parsed \in BOOLEAN, type \in AnswerTypes : NegAnswer(parsed, type)
    \/ \E accepted \in BOOLEAN : NegSetRemote(accepted)

SpecGather == Init /\ [][NextGather]_vars

\* The session of the SubConnections' negotiations: start(), the negotiation
\* with the backend, the control channel opening, stop(), the announcements and
\* answers arriving, every await of the SubConnections' start() and sendOffer(),
\* and their stop().
NextSub ==
    \/ \E hasStream \in BOOLEAN : start(hasStream)
    \/ stop
    \/ DcOpen
    \/ NegOffer
    \/ NegGathered
    \/ NegResponseOk
    \/ \E parsed \in BOOLEAN, type \in AnswerTypes : NegAnswer(parsed, type)
    \/ \E accepted \in BOOLEAN : NegSetRemote(accepted)
    \/ \E id \in PeerIds, type \in AnnouncementTypes : Announced(type, id)
    \/ \E id \in AnswerIds : handleDcMessage(Payload(TRUE, "string", "CONNECTION_ANSWER", TRUE, id))
    \/ \E t \in DOMAIN transports, accepted \in BOOLEAN : SubSetRemote(t, accepted)
    \/ \E t \in DOMAIN transports : SubAnswerReady(t)
    \/ \E t \in DOMAIN transports : SubOfferCreated(t)
    \/ \E t \in DOMAIN transports : subStop(t)

SpecSub == Init /\ [][NextSub]_vars

\* The session of the remote streams: start(), the negotiation with the backend,
\* the control channel opening, announcements that carry the remote offer, their
\* remote description applied, stop() of a SubConnection, and track events of
\* mainPc and of the SubConnections.
NextMedia ==
    \/ \E hasStream \in BOOLEAN : start(hasStream)
    \/ DcOpen
    \/ NegOffer
    \/ NegGathered
    \/ NegResponseOk
    \/ \E parsed \in BOOLEAN, type \in AnswerTypes : NegAnswer(parsed, type)
    \/ \E accepted \in BOOLEAN : NegSetRemote(accepted)
    \/ \E id \in PeerIds : Announced("CONNECTION_OFFER", id)
    \/ \E t \in DOMAIN transports, accepted \in BOOLEAN : SubSetRemote(t, accepted)
    \/ \E t \in DOMAIN transports : subStop(t)
    \/ \E t \in DOMAIN remoteStream, k \in TrackKinds : OnTrack(t, k)

SpecMedia == Init /\ [][NextMedia]_vars

TypeOK ==
    /\ instance \in BOOLEAN
    /\ <<userType, sessionId, participantId>> \in Constructions
    /\ state \in IF instance THEN ConnectionState ELSE {"undefined"}
    /\ neg \in NegPositions
    /\ dc \in IF instance THEN {"connecting", "open", "closed"} ELSE {"undefined"}
    /\ remoteSet \in BOOLEAN /\ tracksAdded \in BOOLEAN /\ pcClosed \in BOOLEAN
    /\ requests \in Nat /\ timers \in Nat /\ stopRuns \in Nat
    /\ Calls \in 0..MaxCalls
    /\ Len(transports) <= handlerCalls
    /\ \A i \in DOMAIN registry : registry[i].tr \in DOMAIN transports
    /\ DOMAIN subPc = DOMAIN transports
    /\ gather \in IF instance THEN {"new"} \cup GatheringStates ELSE {"undefined"}
    /\ DOMAIN subNeg = DOMAIN transports
    /\ DOMAIN remoteStream = 0..Len(transports)
    /\ TotalTracks <= MaxTracks

\* ------------------------------------------------------------------ claims
Count(seq, v) == Cardinality({i \in DOMAIN seq : seq[i] = v})

Ids(reg) == {reg[i].id : i \in DOMAIN reg}

EntriesOf(reg, id) == {i \in DOMAIN reg : reg[i].id = id}

\* The SubConnection t emits its closure notification in this step.
Closes(t) == ~transports[t].stopped /\ transports'[t].stopped

Announcement(id) == Payload(TRUE, "string", "CONNECTION_PROPOSAL", TRUE, id)

\* C1: start() in any state other than NOT_STARTED throws, leaves the state
\* unchanged, notifies nothing and starts no negotiation; the state enters
\* CONNECTING only from NOT_STARTED, never returns to NOT_STARTED, and
\* CONNECTING is notified at most once.
C1_StartOnlyFromNotStarted ==
    [][ /\ ((\E hasStream \in BOOLEAN : start(hasStream)) /\ state # "NOT_STARTED"
              => /\ last'.threw
                 /\ UNCHANGED <<state, notified, neg, requests, tracksAdded>>)
        /\ (state' = "CONNECTING" /\ state # "CONNECTING" => state = "NOT_STARTED")
        /\ (state # "NOT_STARTED" => state' # "NOT_STARTED")
        /\ Count(notified', "CONNECTING") <= 1 ]_vars

\* start() was called on a CONNECTED instance and threw.
C1_Witness == last.op = "start" /\ last.threw /\ state = "CONNECTED"

\* C2: sendMessage() in any state other than CONNECTED throws, writes nothing to
\* the control channel and leaves the state unchanged; the control channel is
\* written only in state CONNECTED.
C2_SendOnlyWhenConnected ==
    [][ /\ ((\E endpoint \in {"GET_SESSION_LIST"} : sendMessage(endpoint))
              /\ state # "CONNECTED"
              => /\ last'.threw
                 /\ UNCHANGED <<dcOut, state, notified>>)
        /\ (dcOut' # dcOut => state = "CONNECTED") ]_vars

\* sendMessage() threw after stop(), while the control channel was still open.
C2_Witness ==
    last.op = "sendMessage" /\ last.threw /\ state = "DISCONNECTED" /\ dc = "open"

\* C3: DISCONNECTED and FAILED are absorbing: no step changes the state once it
\* is DISCONNECTED or FAILED.
C3_TerminalAbsorbing ==
    [][(state \in {"DISCONNECTED", "FAILED"}) => state' = state]_vars

\* C4: stop() is idempotent: once stop() has run, a further run of stop() (called,
\* or from dc.onclose) changes no state, notifies nothing, stops no transceiver
\* or track and schedules no further close of the transport.
C4_StopIdempotent ==
    [][ (stop \/ DcClose) /\ stopRuns >= 1
          => UNCHANGED <<state, notified, transceiverStops, trackStops, timers>> ]_vars

\* C5: once the negotiation request has failed, the remote description was never
\* applied, the control channel never opened and the state was never CONNECTED;
\* in the scenario (start() and the failure, no stop()) the notifications are
\* exactly CONNECTING then FAILED and the state is FAILED.
C5_RequestFailure ==
    neg = "failed"
      => /\ ~remoteSet
         /\ dc = "connecting" \/ (dc = "closed" /\ stopRuns > 0)
         /\ state # "CONNECTED"
         /\ Count(notified, "CONNECTED") = 0
         /\ requests = 1
         /\ stopRuns = 0 => state = "FAILED" /\ notified = <<"CONNECTING", "FAILED">>

\* The backend answered the request with a non-success status; stop() never ran.
C5_Witness == neg = "failed" /\ last.op = "responseNotOk" /\ stopRuns = 0

\* C6: every negotiation fault (an answer of another type than
\* SESSION_DESCRIPTION, a rejected remote description) drives the state to FAILED
\* and notifies FAILED.
C6_NegotiationFaultFails ==
    neg \in {"unexpected", "rejected"} /\ stopRuns = 0
      => state = "FAILED" /\ Count(notified, "FAILED") >= 1

\* C7: handling a peer announcement with id P emits a peer list with exactly one
\* entry with id P, also when P is registered already; the closure of a Peer
\* Transport with id P emits a peer list with no entry with id P.
C7_PeerListFollowsLifecycle ==
    [][ /\ \A id \in PeerIds :
             handleDcMessage(Announcement(id))
               => /\ peerLists' = peerLists + 1
                  /\ Cardinality(EntriesOf(peerList', id)) = 1
        /\ \A t \in DOMAIN transports :
             Closes(t)
               => /\ peerLists' = peerLists + 1
                  /\ EntriesOf(peerList', transports[t].id) = {} ]_vars

\* An id was announced twice and the second transport, not the first, closed.
C7_Witness ==
    /\ Len(transports) >= 2
    /\ transports[1].id = transports[2].id
    /\ last.op = "sub" /\ last.out = "closed" /\ last.tr = 2

\* C8: the ids of the registry are the ids of the Peer Transports that are not
\* closed: no entry with the id of no open transport, no open transport whose id
\* has no entry, no two entries with one id.
C8_RegistryMatchesLive ==
    /\ Ids(registry) = {transports[t].id : t \in {u \in DOMAIN transports : ~transports[u].stopped}}
    /\ \A i, j \in DOMAIN registry : registry[i].id = registry[j].id => i = j

\* C9: the closure of the Peer Transport t with id A removes the entry A, leaves
\* every entry of another id, every other Peer Transport, the ConnectionState and
\* its notifications unchanged; after announcements a then b and the closure of
\* a, the registry is exactly b.
C9_ClosureIsLocal ==
    [][ \A t \in DOMAIN transports :
          Closes(t)
            => /\ EntriesOf(registry', transports[t].id) = {}
               /\ SelectSeq(registry', LAMBDA e : e.id # transports[t].id)
                    = SelectSeq(registry, LAMBDA e : e.id # transports[t].id)
               /\ \A u \in DOMAIN transports : u # t => transports'[u] = transports[u]
               /\ Len(transports') = Len(transports)
               /\ UNCHANGED <<state, notified>>
               /\ (Len(transports) = 2 /\ transports[1].id = "a" /\ transports[2].id = "b"
                     /\ t = 1 /\ ~transports[2].stopped
                     => registry' = <<[id |-> "b", tr |-> 2]>>) ]_vars

\* a and b were announced, a closed: the registry holds b alone.
C9_Witness ==
    /\ transports = <<[id |-> "a", stopped |-> TRUE], [id |-> "b", stopped |-> FALSE]>>
    /\ registry = <<[id |-> "b", tr |-> 2]>>
    /\ last.op = "sub" /\ last.out = "closed" /\ last.id = "a"

\* C10: a payload that fails JSON.parse or isValidMessage invokes no handler,
\* changes neither the ConnectionState nor the registry, raises nothing and
\* leaves the channel open; a valid payload is dispatched to its handler.
C10_MalformedDropped ==
    [][ /\ \A p \in MalformedPayloads :
             handleDcMessage(p)
               => /\ UNCHANGED <<handlerCalls, state, notified, dc, transports,
                                 registry, peerList, peerLists>>
                  /\ ~last'.threw
        /\ \A p \in ValidPayloads :
             handleDcMessage(p) => handlerCalls' = handlerCalls + 1 ]_vars

\* A valid payload was dispatched right after a malformed one was dropped.
C10_Witness == last.op = "dcMessage" /\ last.out = "dispatchedAfterDrop"

\* C11: start() without a local stream on a participant throws before any
\* effect: the state (NOT_STARTED on a fresh instance) is unchanged, nothing is
\* notified, no track is attached, negotiate() is not entered, no request is
\* sent, and no transport is created or closed.
C11_StartNeedsMedia ==
    [][ start(FALSE) /\ userType = "participant"
          => /\ last'.threw
             /\ UNCHANGED <<state, notified, tracksAdded, neg, requests, remoteSet,
                            pcClosed, pcCloses, dc, transports>> ]_vars

\* A fresh participant called start() without a stream: it threw, the state is
\* NOT_STARTED and nothing was notified.
C11_Witness ==
    /\ userType = "participant" /\ last.op = "start" /\ last.threw
    /\ state = "NOT_STARTED" /\ notified = <<>> /\ requests = 0

\* C12: a participant constructed without (left out or empty) session id or
\* participant id has no instance: the constructor threw, there is no state, no
\* control channel, no transport, no request and no step; an experimenter is
\* constructed without ids; an instance fresh from the constructor is
\* NOT_STARTED and has notified nothing.
C12_ConstructionChecksIds ==
    /\ (userType = "participant"
          /\ (sessionId \in {"undefined", ""} \/ participantId \in {"undefined", ""})
          => /\ ~instance
             /\ last = Step("new", TRUE)
             /\ state \notin ConnectionState /\ dc = "undefined"
             /\ requests = 0 /\ notified = <<>> /\ transports = <<>> /\ timers = 0)
    /\ (userType = "experimenter" => instance)
    /\ (instance /\ last.op = "new"
          => ~last.threw /\ state = "NOT_STARTED" /\ notified = <<>> /\ neg = "idle")

\* A participant was constructed with the empty string as session id: the
\* constructor threw.
C12_Witness ==
    /\ userType = "participant" /\ sessionId = "" /\ participantId = "U"
    /\ ~instance /\ last.threw

\* C13: over any sequence of stop() calls and status events of a SubConnection,
\* status events raised inside pc.close() included, its transceivers are stopped
\* and its pc closed at most once, and connectionClosed is emitted exactly once,
\* with its own id, once it is stopped (and not before).
C13_SubStopOnce ==
    \A t \in DOMAIN transports :
      /\ subPc[t].closes <= 1
      /\ Len(subPc[t].emitted) <= 1
      /\ transports[t].stopped
           => subPc[t].closes = 1 /\ subPc[t].emitted = <<transports[t].id>>
      /\ ~transports[t].stopped
           => subPc[t].closes = 0 /\ subPc[t].emitted = <<>>

\* Every SubConnection is stopped and a further stop() or status event of one of
\* them was handled with no effect.
C13_Witness ==
    /\ Len(transports) >= 1
    /\ \A t \in DOMAIN transports : transports[t].stopped
    /\ last.op = "sub" /\ last.out = "ignored"

C15_ConnectedToDisconnected ==
    [][ state = "CONNECTED" /\ last'.op \in {"stop", "dcClose", "mainPcState"}
          => state' = "DISCONNECTED" /\ notified' = Append(notified, "DISCONNECTED") ]_vars

\* The transitions of the state machine.
Transitions ==
    {<<"NOT_STARTED", "CONNECTING">>, <<"CONNECTING", "CONNECTED">>,
     <<"CONNECTING", "FAILED">>, <<"CONNECTED", "FAILED">>,
     <<"CONNECTED", "DISCONNECTED">>}

\* C16: every change of the state is one of the five transitions; CONNECTED is
\* entered only from CONNECTING and only by the open event of the control
\* channel; the state never returns to NOT_STARTED or CONNECTING.
C16_OnlyMachineTransitions ==
    [][ state' # state
          => /\ <<state, state'>> \in Transitions
             /\ state' = "CONNECTED" => state = "CONNECTING" /\ last'.op = "dcOpen"
             /\ state' \notin {"NOT_STARTED", "CONNECTING"} \/ state = "NOT_STARTED" ]_vars

\* C17: the notifications are the transitions: a step that changes the state
\* notifies the new state once, a step that leaves the state notifies nothing,
\* and the state notified last is the current state.
C17_NotificationsAreTransitions ==
    [][ /\ state' # state => notified' = Append(notified, state')
        /\ state' = state => notified' = notified
        /\ notified' # <<>> => notified'[Len(notified')] = state' ]_vars

C20_StartTerminates ==
    (state = "CONNECTING" /\ stopRuns = 0)
      ~> (state \in {"CONNECTED", "FAILED"} \/ stopRuns > 0)

\* C21: the wait for ICE gathering is race-free and one-shot: a request is sent
\* only in a step that leaves iceGatheringState "complete", and at most one is
\* sent; a wait that starts with the gathering complete resumes at once and
\* otherwise subscribes; a gathering-state event resumes a subscribed wait
\* exactly when the state is "complete"; an event that finds no wait subscribed
\* (before the wait, or after it resumed) resumes nothing and sends nothing.
C21_GatheringWaitOneShot ==
    [][ /\ requests' # requests
             => requests = 0 /\ requests' = 1 /\ gather' = "complete" /\ neg' = "fetch"
        /\ neg = "offer" /\ neg' # "offer" /\ ~pcClosed
             => IF gather = "complete"
                THEN neg' = "fetch" /\ requests' = requests + 1
                ELSE neg' = "gathering" /\ requests' = requests
        /\ gather' # gather /\ neg = "gathering"
             => IF gather' = "complete"
                THEN neg' = "fetch" /\ requests' = requests + 1
                ELSE UNCHANGED <<neg, requests>>
        /\ gather' # gather /\ neg # "gathering"
             => UNCHANGED <<neg, requests>> ]_vars

\* The gathering was complete before the wait began: the wait resumed at once
\* and the request was sent.
C21_Witness ==
    /\ last.op = "negOffer" /\ last.out = "resumed"
    /\ gather = "complete" /\ neg = "fetch" /\ requests = 1

\* C22: at most one negotiation request is issued per Connection, and no
\* request is issued once the state is FAILED or DISCONNECTED.
C22_NoRequestAfterTerminal ==
    [][ /\ requests' <= 1
        /\ state \in {"FAILED", "DISCONNECTED"} => requests' = requests ]_vars

\* C23: a run of stop() with mainPc not closed sets and notifies DISCONNECTED,
\* stops the transceivers, stops the senders' tracks and leaves the close of
\* mainPc to a later step, in this order; a run of stop() with mainPc closed
\* does none of these steps.
C23_TeardownOrder ==
    [][ last'.op \in {"stop", "dcClose"}
          => IF ~pcClosed
             THEN /\ last'.steps = <<"setState", "transceivers", "tracks", "setTimeout">>
                  /\ state' = "DISCONNECTED"
                  /\ notified' = Append(notified, "DISCONNECTED")
                  /\ timers' = timers + 1
                  /\ UNCHANGED <<pcClosed, pcCloses>>
             ELSE /\ last'.steps = <<>>
                  /\ UNCHANGED <<state, notified, transceiverStops, trackStops,
                                 timers, pcClosed, pcCloses>> ]_vars

\* C24: a call of start() or sendOffer() of a SubConnection writes at most one
\* negotiation message, and exactly one when it ends without an error: the
\* message carries the SubConnection's own id and the type of its entry point,
\* it is appended to the control channel by the step that ends the call, after
\* the local description was produced (for start(), after the remote
\* description of the announcement was applied), on a pc that is not closed,
\* and no request to the backend is issued by it.
C24_OneMessagePerCall ==
    [][ \A t \in DOMAIN transports :
          LET id == transports[t].id
              type == IF subNeg[t].entry = "start" THEN "CONNECTION_ANSWER"
                      ELSE "CONNECTION_OFFER"
              sent == Len(SelectSeq(dcOut', LAMBDA m : m.id = id))
          IN  /\ sent = IF subNeg'[t].pos = "sent" THEN 1 ELSE 0
              /\ subNeg[t].pos = "sent" => subNeg'[t].pos = "sent"
              /\ subNeg[t].pos # "sent" /\ subNeg'[t].pos = "sent"
                    => /\ dcOut' = Append(dcOut, Message(type, id))
                       /\ subNeg[t].pos = IF subNeg[t].entry = "start" THEN "answer"
                                          ELSE "offer"
                       /\ subNeg[t].entry = "start" => subNeg[t].remote = id
                       /\ ~transports[t].stopped
                       /\ requests' = requests
                       /\ last'.op = "subSend" /\ ~last'.threw
              /\ subNeg'[t].pos # subNeg[t].pos /\ ~last'.threw
                   /\ subNeg'[t].pos \notin {"answer"}
                    => subNeg'[t].pos = "sent" ]_vars

\* The second of two SubConnections ended start() with its answer written to
\* the control channel, before the first one sent anything.
C24_Witness ==
    /\ Len(transports) = 2
    /\ subNeg[2].entry = "start" /\ subNeg[2].pos = "sent"
    /\ subNeg[1].pos \in {"remote", "answer", "offer"}
    /\ last.op = "subSend" /\ ~last.threw
    /\ dcOut = <<Message("CONNECTION_ANSWER", transports[2].id)>>

\* C24 as stated: every call of start() or sendOffer() that ended has written
\* exactly one negotiation message.
C24_ExactlyOnePerCall ==
    \A t \in DOMAIN transports :
        subNeg[t].pos \in {"sent", "sendFailed", "threw"}
          => Len(SelectSeq(dcOut, LAMBDA m : m.id = transports[t].id)) = 1

\* C25: an inbound answer that carries the peer id P changes the remote
\* description of no SubConnection but the one registered under P, which takes
\* it as the description of P; an answer whose id is not in the registry changes
\* no SubConnection; neither changes the registry, the peer list or the state.
C25_AnswerById ==
    [][ last'.op = "dcMessage" /\ last'.out \in {"answered", "answerDropped"}
          => LET P == last'.id IN
             /\ \A t \in DOMAIN transports :
                   subNeg'[t] # subNeg[t]
                     => /\ transports[t].id = P
                        /\ \E i \in DOMAIN registry : registry[i] = [id |-> P, tr |-> t]
                        /\ subNeg'[t] = [subNeg[t] EXCEPT !.remote = P]
             /\ (\A i \in DOMAIN registry : registry[i].id # P)
                   => subNeg' = subNeg /\ last'.out = "answerDropped"
             /\ UNCHANGED <<transports, subPc, registry, peerList, peerLists, state,
                            notified, dcOut>> ]_vars

\* The answer for the second of two SubConnections arrived while both awaited
\* one: the second has its remote description, the first has none.
C25_Witness ==
    /\ last.op = "dcMessage" /\ last.out = "answered" /\ last.tr = 2
    /\ Len(transports) = 2 /\ last.id = transports[2].id
    /\ subNeg[2].remote = transports[2].id
    /\ subNeg[1].entry = "sendOffer" /\ subNeg[1].pos = "sent" /\ subNeg[1].remote = ""
    /\ ~transports[1].stopped

\* C26: the remote stream of mainPc and of every SubConnection starts empty and
\* changes only by a track event of its own transport that carries an audio or
\* video track: the track is appended and one stream change is notified; a
\* track of another kind changes no stream and notifies nothing; so every stream
\* holds audio and video tracks only, one per notification.
C26_StreamAggregation ==
    [][ /\ DOMAIN remoteStream \subseteq DOMAIN remoteStream'
        /\ \A t \in DOMAIN remoteStream' \ DOMAIN remoteStream : remoteStream'[t] = NoStream
        /\ \A t \in DOMAIN remoteStream :
              remoteStream'[t] # remoteStream[t]
                => /\ last'.op = "track" /\ last'.tr = t
                   /\ last'.out \in {"audio", "video"}
                   /\ remoteStream'[t].tracks = Append(remoteStream[t].tracks, last'.out)
                   /\ remoteStream'[t].changes = remoteStream[t].changes + 1
        /\ last'.op = "track"
              => IF last'.out \in {"audio", "video"}
                 THEN remoteStream'[last'.tr] # remoteStream[last'.tr]
                 ELSE remoteStream' = remoteStream
        /\ \A t \in DOMAIN remoteStream' :
              /\ remoteStream'[t].changes = Len(remoteStream'[t].tracks)
              /\ \A i \in DOMAIN remoteStream'[t].tracks :
                    remoteStream'[t].tracks[i] \in {"audio", "video"} ]_vars

\* A track of another kind arrived at a SubConnection whose stream holds an
\* audio track, the stream of mainPc holding a video track.
C26_Witness ==
    /\ last.op = "track" /\ last.out = "other" /\ last.tr > 0
    /\ remoteStream[last.tr] = [tracks |-> <<"audio">>, changes |-> 1]
    /\ remoteStream[0] = [tracks |-> <<"video">>, changes |-> 1]

\* C27: stop() of a SubConnection whose start() or sendOffer() is suspended at
\* an await does not throw: the SubConnection is stopped, its pc closed once,
\* connectionClosed is emitted once with its id, its registry entry is removed
\* and nothing is written to the control channel; and once a SubConnection is
\* stopped, no message with its id is written and nothing more is emitted.
C27_StopUnnegotiated ==
    [][ /\ last'.op = "sub" /\ last'.out = "closed"
             /\ subNeg[last'.tr].pos \in {"remote", "answer", "offer"}
          => LET t == last'.tr IN
             /\ ~last'.threw
             /\ ~transports[t].stopped /\ transports'[t].stopped
             /\ subPc'[t] = [closes |-> 1, emitted |-> <<transports[t].id>>]
             /\ \A i \in DOMAIN registry' : registry'[i].id # transports[t].id
             /\ dcOut' = dcOut
        /\ \A t \in DOMAIN transports :
              transports[t].stopped
                => /\ transports'[t].stopped
                   /\ subPc'[t] = subPc[t]
                   /\ SelectSeq(dcOut', LAMBDA m : m.id = transports[t].id)
                        = SelectSeq(dcOut, LAMBDA m : m.id = transports[t].id) ]_vars

\* A SubConnection was stopped after the remote description was applied; its
\* start() resumed on the closed pc and ended with the error, nothing written,
\* while the Connection is CONNECTED and could send.
C27_Witness ==
    /\ last.op = "subNeg" /\ last.threw /\ last.out = "answer"
    /\ state = "CONNECTED" /\ dc = "open" /\ dcOut = <<>>
    /\ \E t \in DOMAIN transports :
          /\ transports[t].stopped /\ subNeg[t].pos = "threw"
          /\ subNeg[t].remote = transports[t].id
          /\ subPc[t].emitted = <<transports[t].id>>

\* C28: a step of the negotiation of one SubConnection changes the negotiation
\* of that SubConnection only: a message it writes carries that SubConnection's
\* id, a remote description it applies is the one announced for it, and it
\* changes no other SubConnection, no registry entry and no peer list. When two
\* announced SubConnections both have sent, in whatever order their steps ran,
\* the registry holds them in the order of announcement and each has its own
\* remote description or none.
C28_IndependentNegotiations ==
    [][ /\ last'.op \in {"subNeg", "subSend"}
          => /\ \E t \in DOMAIN transports :
                   /\ {u \in DOMAIN transports : subNeg'[u] # subNeg[u]} = {t}
                   /\ dcOut' # dcOut
                         => \E type \in {"CONNECTION_OFFER", "CONNECTION_ANSWER"} :
                               dcOut' = Append(dcOut, Message(type, transports[t].id))
                   /\ subNeg'[t].remote # subNeg[t].remote
                         => subNeg'[t].remote = transports[t].id
             /\ UNCHANGED <<transports, subPc, registry, peerList, peerLists, state>>
        /\ /\ Len(transports') = 2
           /\ \A t \in DOMAIN transports' :
                 subNeg'[t].pos = "sent" /\ ~transports'[t].stopped
          => /\ registry' = <<[id |-> transports'[1].id, tr |-> 1],
                              [id |-> transports'[2].id, tr |-> 2]>>
             /\ \A t \in DOMAIN transports' :
                   /\ subPc'[t] = [closes |-> 0, emitted |-> <<>>]
                   /\ subNeg'[t].remote
                        \in IF subNeg'[t].entry = "start" THEN {transports'[t].id}
                            ELSE {"", transports'[t].id}
                   /\ \E i \in DOMAIN dcOut' :
                         /\ dcOut'[i].id = transports'[t].id
                         /\ \A j \in DOMAIN dcOut' :
                               dcOut'[j].id = transports'[t].id => j = i ]_vars

\* Two announced SubConnections both have sent, the second one first.
C28_Witness ==
    /\ Len(transports) = 2
    /\ \A t \in DOMAIN transports : subNeg[t].pos = "sent" /\ ~transports[t].stopped
    /\ Len(dcOut) = 2
    /\ dcOut[1].id = transports[2].id /\ dcOut[2].id = transports[1].id
    /\ last.op = "subSend"

\* C29: a valid message of the control channel invokes the handlers subscribed
\* to its type in every state of the Connection, after stop() set DISCONNECTED
\* as well, and no inbound message, valid or not, changes the state or notifies
\* a state change.
C29_DispatchInAnyState ==
    [][ /\ \A p \in ValidPayloads :
             handleDcMessage(p)
               => /\ last'.out # "dropped"
                  /\ last'.hs = HandlerNames(Matching(handlers, p.type))
                  /\ handlerCalls' = handlerCalls + Len(last'.hs)
        /\ last'.op = "dcMessage" => UNCHANGED <<state, notified>> ]_vars

\* A message was dispatched to its handler after stop() set DISCONNECTED, while
\* the close of mainPc is still pending.
C29_Witness ==
    /\ last.op = "dcMessage" /\ last.out # "dropped" /\ last.hs # <<>>
    /\ state = "DISCONNECTED" /\ timers > 0 /\ ~pcClosed /\ dc = "open"

\* C30: a SubConnection's negotiation message is appended to the control
\* channel only in state CONNECTED; a send attempted in another state throws,
\* writes nothing, leaves the state, its notifications, the registry and every
\* other SubConnection unchanged, and leaves the sending SubConnection open,
\* with no connectionClosed emitted.
C30_SendOnlyConnected ==
    [][ /\ (dcOut' # dcOut /\ dcOut'[Len(dcOut')].id # "")
             => state = "CONNECTED" /\ state' = "CONNECTED"
        /\ last'.op = "subSend" /\ state # "CONNECTED"
             => /\ last'.threw
                /\ UNCHANGED <<dcOut, state, notified, dc, pcClosed, transports, subPc,
                               registry, peerList, peerLists>>
                /\ \E t \in DOMAIN transports :
                      /\ {u \in DOMAIN transports : subNeg'[u] # subNeg[u]} = {t}
                      /\ subNeg'[t] = [subNeg[t] EXCEPT !.pos = "sendFailed"]
                      /\ ~transports'[t].stopped
                      /\ subPc'[t].emitted = <<>> ]_vars

\* The Connection was stopped while a SubConnection created its answer: the
\* send failed with the channel still open, the SubConnection stays open and
\* registered, and nothing was written.
C30_Witness ==
    /\ last.op = "subSend" /\ last.threw
    /\ state = "DISCONNECTED" /\ dc = "open" /\ dcOut = <<>>
    /\ \E t \in DOMAIN transports :
          /\ subNeg[t].entry = "start" /\ subNeg[t].pos = "sendFailed"
          /\ ~transports[t].stopped /\ subPc[t].emitted = <<>>
          /\ \E i \in DOMAIN registry : registry[i].tr = t
====
